---- MODULE Spec2Model ----
(***************************************************************************)
(* The container registry service of containerd's execution plugin         *)
(* (Service: Register, Create, Start, Delete, List, getContainer,          *)
(* getRuntime), run by concurrent request goroutines against one Service,  *)
(* with the runtime backend and its containers as the environment; and the  *)
(* process supervisor of package runtime (newProcess, loadProcess, getPid,  *)
(* ExitStatus, CloseStdin, Resize, Close) over the files and pipes of its   *)
(* process directory.                                                       *)
(***************************************************************************)
EXTENDS Integers, Sequences, FiniteSets, TLC

\* ---------------------------------------------------------------- bounds
\* number of requests the goroutines serve in one run
MaxReqs == 3
\* number of calls made on a supervisor once it is built
MaxOps == 3

\* ------------------------------------------------------------ input sets
Threads == {"g1", "g2"}
Ids == {"c1", "c2"}
\* s.runtimes: the configured runtime backends, by name
Runtimes == {"runc"}
\* runtime names a CreateRequest may carry
RuntimeNames == Runtimes \cup {"nope"}

NoThread == "none"
NoContainer == 0

\* ----------------------------------------------------------------- errors
Nil == "nil"
ErrContainerExists == "ErrContainerExists"
ErrContainerNotExist == "ErrContainerNotExist"
ErrUnknownRuntime == "ErrUnknownRuntime"
\* opaque errors of the runtime backend and its containers
ErrBackendCreate == "backend: create failed"
ErrBackendDelete == "backend: delete failed"
ErrState == "container: state failed"
ErrStart == "container: start failed"

\* containerd.Status values of a container, and the api enum List maps to
CreatedStatus == "created"
RunningStatus == "running"
StoppedStatus == "stopped"
PausedStatus == "paused"
Statuses == {CreatedStatus, RunningStatus, StoppedStatus, PausedStatus}

VARIABLES
    phase,       \* "register" (Service.Register running), "serving", "failed"
    regTodo,     \* Register: runtimes of s.runtimes not yet ranged over
    containers,  \* s.containers: id -> container (a handle into objs)
    mu,          \* s.mu: the goroutine holding it, or NoThread
    objs,        \* the backends' containers, by handle: what Create, Delete,
                 \* Start and State act on
    pc,          \* per goroutine: its position in its handler
    req,         \* per goroutine: the request it serves
    c,           \* per goroutine: the handler's local c
    todo,        \* per goroutine, List: entries the range loop has not visited
    resp,        \* per goroutine, List: resp.Containers so far
    calls,       \* per goroutine: the backend and container calls its current
                 \* request made, with the error each returned
    ret,         \* per goroutine: what its last request returned
    overlap,     \* whether the two goroutines' current requests overlapped
    nreq         \* number of requests served or in service

\* the process supervisor (package runtime) and its process directory
VARIABLES
    ppc,         \* "none", inside loadProcess ("load_pid", "load_exit"), inside a
                 \* later getPid ("getpid"), "ready" (built), "failed" (not built)
    kind,        \* "new" (newProcess), "load" (loadProcess) or "none"
    p,           \* the process struct: pid, exitPipe, controlPipe
    fds,         \* the files opened for it: process.json, the exit and the
                 \* control pipe, each "none", "open" or "closed"
    pidFile,     \* <root>/pid
    exitFile,    \* <root>/exitStatus
    spawned,     \* the OS process was started
    tries,       \* getPid: the loop counter i
    reads,       \* getPid: the ReadFile calls of the current discovery
    ctl,         \* the records written to the control pipe
    pret,        \* what the last call on the supervisor returned
    statusSeen,  \* ExitStatus has returned an exit status
    nops         \* calls made on the built supervisor

svars == <<phase, regTodo, containers, mu, objs, pc, req, c, todo, resp, calls, ret, overlap, nreq>>

pvars == <<ppc, kind, p, fds, pidFile, exitFile, spawned, tries, reads, ctl, pret, statusSeen, nops>>

vars == <<svars, pvars>>

NoReq == [name |-> "none", id |-> "", runtime |-> ""]
NoRet == [err |-> Nil, id |-> "", pid |-> 0, list |-> <<>>, isnil |-> TRUE]

\* the backends' containers at daemon start
\* the pid of the h-th container of the backends
BackendPid(h) == 100 + h

InitObjs ==
    {<<>>, <<[id |-> "c1", runtime |-> "runc", pid |-> BackendPid(1), status |-> RunningStatus, deleted |-> FALSE]>>}

\* *os.File fields of the process struct
NilFile == "nil"
ExitPipeFile == "exit pipe"
ControlPipeFile == "control pipe"

NoProcess == [pid |-> 0, exitPipe |-> NilFile, controlPipe |-> NilFile]
NoFds == [json |-> "none", exit |-> "none", control |-> "none"]
Absent == [st |-> "absent", data |-> <<>>]
NoPRet == [op |-> "none", val |-> 0, err |-> Nil]

\* no supervisor is being built: the registry service runs alone
ProcRest ==
    /\ ppc = "none" /\ kind = "none" /\ p = NoProcess /\ fds = NoFds
    /\ pidFile = Absent /\ exitFile = Absent /\ spawned = FALSE
    /\ tries = 0 /\ reads = 0 /\ ctl = <<>> /\ pret = NoPRet
    /\ statusSeen = FALSE /\ nops = 0

Init ==
    /\ ProcRest
    /\ phase = "register"
    /\ regTodo = Runtimes
    /\ containers = <<>>
    /\ mu = NoThread
    /\ objs \in InitObjs
    /\ pc = [t \in Threads |-> "idle"]
    /\ req = [t \in Threads |-> NoReq]
    /\ c = [t \in Threads |-> NoContainer]
    /\ todo = [t \in Threads |-> {}]
    /\ resp = [t \in Threads |-> <<>>]
    /\ calls = [t \in Threads |-> <<>>]
    /\ ret = [t \in Threads |-> NoRet]
    /\ overlap = FALSE
    /\ nreq = 0

\* ---------------------------------------------------------------- helpers
Handles == 1..Len(objs)

Registered(id) == id \in DOMAIN containers

\* m[k] = v on a Go map
MapPut(m, k, v) == [x \in DOMAIN m \cup {k} |-> IF x = k THEN v ELSE m[x]]

\* delete(m, k) on a Go map
MapDelete(m, k) == [x \in DOMAIN m \ {k} |-> m[x]]

Call(op, h, err) == [op |-> op, h |-> h, err |-> err]

Idle(t) == pc[t] \in {"idle", "done"}

Other(t) == CHOOSE u \in Threads : u # t

\* a goroutine starts serving a request
Begin(t, r) ==
    /\ phase = "serving"
    /\ Idle(t)
    /\ nreq < MaxReqs
    /\ nreq' = nreq + 1
    /\ req' = [req EXCEPT ![t] = r]
    /\ calls' = [calls EXCEPT ![t] = <<>>]
    /\ overlap' = ~Idle(Other(t))
    /\ UNCHANGED pvars

\* getRuntime: the lookup in s.runtimes
getRuntime(name) == IF name \in Runtimes THEN Nil ELSE ErrUnknownRuntime

\* mutant of getContainerErr: the wrong sentinel for a missing container
getContainerErrWrong(ok) == IF ok THEN Nil ELSE ErrUnknownRuntime

\* getContainer's result for a lookup that found (ok) or missed
getContainerErr(ok) == IF ok THEN Nil ELSE ErrContainerNotExist


\* the handler returns r; its locals are gone
Return(t, r) ==
    /\ pc' = [pc EXCEPT ![t] = "done"]
    /\ ret' = [ret EXCEPT ![t] = r]
    /\ c' = [c EXCEPT ![t] = NoContainer]
    /\ todo' = [todo EXCEPT ![t] = {}]
    /\ resp' = [resp EXCEPT ![t] = <<>>]

\* the handler moves on to l, its locals as they are
Goto(t, l) ==
    /\ pc' = [pc EXCEPT ![t] = l]
    /\ ret' = [ret EXCEPT ![t] = NoRet]
    /\ UNCHANGED <<c, todo, resp>>

\* the handler moves on to l with local c set
GotoWith(t, l, cv) ==
    /\ pc' = [pc EXCEPT ![t] = l]
    /\ ret' = [ret EXCEPT ![t] = NoRet]
    /\ c' = [c EXCEPT ![t] = cv]
    /\ UNCHANGED <<todo, resp>>

Failure(e) == [NoRet EXCEPT !.err = e]

Record(t, op, h, e) == calls' = [calls EXCEPT ![t] = Append(@, Call(op, h, e))]

\* the containers runtime r enumerates: r.Containers()
ContainersOf(r) == {h \in Handles : objs[h].runtime = r /\ ~objs[h].deleted}

\* s.containers after the inner loop of Register stored every container of hs
\* under its id (a later one of the same id replaces an earlier one)
LoadAll(m, hs) ==
    LET ids == {objs[h].id : h \in hs}
        last(id) == CHOOSE h \in hs : objs[h].id = id /\ \A g \in hs : objs[g].id = id => g <= h
    IN  [id \in DOMAIN m \cup ids |-> IF id \in ids THEN last(id) ELSE m[id]]

\* the backends' containers after runtime.Delete deleted h
Deleted(os, h) == [os EXCEPT ![h].deleted = TRUE, ![h].status = StoppedStatus]

\* the backends' containers after container h was started
Started(os, h) == [os EXCEPT ![h].status = RunningStatus]

\* --------------------------------------------------------------- Register
\* one iteration of the loop over s.runtimes: r.Containers() succeeded and each
\* container is stored; s.mu is not taken
RegisterLoad(r) ==
    /\ phase = "register"
    /\ r \in regTodo
    /\ regTodo' = regTodo \ {r}
    /\ containers' = LoadAll(containers, ContainersOf(r))
    /\ UNCHANGED <<c, todo, resp, phase, mu, objs, pc, req, calls, ret, overlap, nreq, pvars>>

\* r.Containers() failed: Register returns the error
RegisterFail(r) ==
    /\ phase = "register"
    /\ r \in regTodo
    /\ phase' = "failed"
    /\ UNCHANGED <<c, todo, resp, regTodo, containers, mu, objs, pc, req, calls, ret, overlap, nreq, pvars>>

\* the loop is over: Register returns nil and the server starts serving
RegisterReturn ==
    /\ phase = "register"
    /\ regTodo = {}
    /\ phase' = "serving"
    /\ UNCHANGED <<c, todo, resp, regTodo, containers, mu, objs, pc, req, calls, ret, overlap, nreq, pvars>>

\* ----------------------------------------------------------------- Create
\* Create is called: the options are built and the runtime is resolved
CreateCall(t, id, rt) ==
    /\ Begin(t, [name |-> "Create", id |-> id, runtime |-> rt])
    /\ IF getRuntime(rt) # Nil
         THEN Return(t, Failure(getRuntime(rt)))
         ELSE Goto(t, "c_lock")
    /\ UNCHANGED <<phase, regTodo, containers, mu, objs>>

\* mutant of CreateLock: the lock is released right after the existence check
CreateLockReleasedEarly(t) ==
    /\ pc[t] = "c_lock"
    /\ mu = NoThread
    /\ mu' = NoThread
    /\ IF Registered(req[t].id)
         THEN Return(t, Failure(ErrContainerExists))
         ELSE Goto(t, "c_backend")
    /\ UNCHANGED <<phase, regTodo, containers, objs, req, calls, overlap, nreq, pvars>>

\* mutant of CreateLock: a registered id is not rejected
CreateLockNoCheck(t) ==
    /\ pc[t] = "c_lock"
    /\ mu = NoThread
    /\ mu' = t
    /\ Goto(t, "c_backend")
    /\ UNCHANGED <<phase, regTodo, containers, objs, req, calls, overlap, nreq, pvars>>

\* s.mu.Lock() and the existence check
CreateLock(t) ==
    /\ pc[t] = "c_lock"
    /\ mu = NoThread
    /\ IF Registered(req[t].id)
         THEN /\ mu' = NoThread
              /\ Return(t, Failure(ErrContainerExists))
         ELSE /\ mu' = t
              /\ Goto(t, "c_backend")
    /\ UNCHANGED <<phase, regTodo, containers, objs, req, calls, overlap, nreq, pvars>>

\* mutant of CreateBackendFail: the failed container is registered all the same
CreateBackendFailRegisters(t) ==
    /\ pc[t] = "c_backend"
    /\ Record(t, "Create", NoContainer, ErrBackendCreate)
    /\ containers' = MapPut(containers, req[t].id, NoContainer)
    /\ mu' = NoThread
    /\ Return(t, Failure(ErrBackendCreate))
    /\ UNCHANGED <<phase, regTodo, objs, req, overlap, nreq, pvars>>

\* mutant of CreateBackendFail: the error path forgets s.mu.Unlock()
CreateBackendFailKeepsLock(t) ==
    /\ pc[t] = "c_backend"
    /\ Record(t, "Create", NoContainer, ErrBackendCreate)
    /\ Return(t, Failure(ErrBackendCreate))
    /\ UNCHANGED <<phase, regTodo, containers, mu, objs, req, overlap, nreq, pvars>>

\* runtime.Create returns an error: unlock and return it
CreateBackendFail(t) ==
    /\ pc[t] = "c_backend"
    /\ Record(t, "Create", NoContainer, ErrBackendCreate)
    /\ mu' = NoThread
    /\ Return(t, Failure(ErrBackendCreate))
    /\ UNCHANGED <<phase, regTodo, containers, objs, req, overlap, nreq, pvars>>

\* runtime.Create returns a container: it is stored under the id, unlock
CreateBackendOk(t) ==
    /\ pc[t] = "c_backend"
    /\ LET h == Len(objs) + 1 IN
        /\ objs' = Append(objs, [id |-> req[t].id, runtime |-> req[t].runtime, pid |-> BackendPid(h),
                                 status |-> CreatedStatus, deleted |-> FALSE])
        /\ Record(t, "Create", h, Nil)
        /\ containers' = MapPut(containers, req[t].id, h)
        /\ GotoWith(t, "c_state", h)
    /\ mu' = NoThread
    /\ UNCHANGED <<phase, regTodo, req, overlap, nreq, pvars>>

\* c.State succeeds: Create returns the id and state.Pid()
CreateStateOk(t) ==
    /\ pc[t] = "c_state"
    /\ Record(t, "State", c[t], Nil)
    /\ Return(t, [NoRet EXCEPT !.id = req[t].id, !.pid = objs[c[t]].pid, !.isnil = FALSE])
    /\ UNCHANGED <<phase, regTodo, containers, mu, objs, req, overlap, nreq, pvars>>

\* c.State fails: the handler goes on to undo the registration
CreateStateFail(t) ==
    /\ pc[t] = "c_state"
    /\ Record(t, "State", c[t], ErrState)
    /\ Goto(t, "c_rb_lock")
    /\ UNCHANGED <<phase, regTodo, containers, mu, objs, req, overlap, nreq, pvars>>

\* mutant of CreateRollbackLock: the rollback does not take the lock
CreateRollbackNoLock(t) ==
    /\ pc[t] = "c_rb_lock"
    /\ Goto(t, "c_rb_unreg")
    /\ UNCHANGED <<phase, regTodo, containers, mu, objs, req, calls, overlap, nreq, pvars>>

\* s.mu.Lock() of the rollback
CreateRollbackLock(t) ==
    /\ pc[t] = "c_rb_lock"
    /\ mu = NoThread
    /\ mu' = t
    /\ Goto(t, "c_rb_unreg")
    /\ UNCHANGED <<phase, regTodo, containers, objs, req, calls, overlap, nreq, pvars>>

\* delete(s.containers, r.ID)
CreateRollbackUnregister(t) ==
    /\ pc[t] = "c_rb_unreg"
    /\ containers' = MapDelete(containers, req[t].id)
    /\ Goto(t, "c_rb_delete")
    /\ UNCHANGED <<phase, regTodo, mu, objs, req, calls, overlap, nreq, pvars>>

\* mutant of RollbackErr: a failed compensating Delete replaces the error
RollbackErrOfDelete(stateErr, deleteErr) == IF deleteErr # Nil THEN deleteErr ELSE stateErr

\* the error Create returns after the rollback: its err, set by c.State
RollbackErr(stateErr, deleteErr) == stateErr

\* runtime.Delete(ctx, c), its result dropped; unlock; return err
CreateRollbackDelete(t, ok) ==
    /\ pc[t] = "c_rb_delete"
    /\ LET e == IF ok THEN Nil ELSE ErrBackendDelete IN
        /\ Record(t, "Delete", c[t], e)
        /\ objs' = IF ok THEN Deleted(objs, c[t]) ELSE objs
        /\ Return(t, Failure(RollbackErr(calls[t][Len(calls[t])].err, e)))
    /\ mu' = NoThread
    /\ UNCHANGED <<phase, regTodo, containers, req, overlap, nreq, pvars>>


\* ----------------------------------------------------------- getContainer
\* getContainer: lock, look the id up, unlock; the container or NoContainer
\* for ErrContainerNotExist
getContainer(id) == IF Registered(id) THEN containers[id] ELSE NoContainer

\* ------------------------------------------------------------------ Start
\* Start is called: getContainer
StartCall(t, id) ==
    /\ Begin(t, [name |-> "Start", id |-> id, runtime |-> ""])
    /\ mu = NoThread
    /\ IF getContainerErr(Registered(id)) # Nil
         THEN Return(t, Failure(getContainerErr(Registered(id))))
         ELSE GotoWith(t, "s_start", getContainer(id))
    /\ UNCHANGED <<phase, regTodo, containers, mu, objs>>

\* c.Start(ctx) and the return
StartContainer(t, ok) ==
    /\ pc[t] = "s_start"
    /\ ok => ~objs[c[t]].deleted
    /\ Record(t, "Start", c[t], IF ok THEN Nil ELSE ErrStart)
    /\ objs' = IF ok THEN Started(objs, c[t]) ELSE objs
    /\ Return(t, IF ok THEN [NoRet EXCEPT !.isnil = FALSE] ELSE Failure(ErrStart))
    /\ UNCHANGED <<phase, regTodo, containers, mu, req, overlap, nreq, pvars>>

\* ----------------------------------------------------------------- Delete
\* Delete is called: getContainer
DeleteCall(t, id) ==
    /\ Begin(t, [name |-> "Delete", id |-> id, runtime |-> ""])
    /\ mu = NoThread
    /\ IF getContainerErr(Registered(id)) # Nil
         THEN Return(t, Failure(getContainerErr(Registered(id))))
         ELSE GotoWith(t, "d_delete", getContainer(id))
    /\ UNCHANGED <<phase, regTodo, containers, mu, objs>>

\* getRuntime(c.Info().Runtime), runtime.Delete(ctx, c) and the return; the
\* registry map is left alone
DeleteContainer(t, ok) ==
    /\ pc[t] = "d_delete"
    /\ IF getRuntime(objs[c[t]].runtime) # Nil
         THEN /\ Return(t, Failure(getRuntime(objs[c[t]].runtime)))
              /\ UNCHANGED <<objs, calls>>
         ELSE /\ Record(t, "Delete", c[t], IF ok THEN Nil ELSE ErrBackendDelete)
              /\ objs' = IF ok THEN Deleted(objs, c[t]) ELSE objs
              /\ Return(t, IF ok THEN [NoRet EXCEPT !.isnil = FALSE] ELSE Failure(ErrBackendDelete))
    /\ UNCHANGED <<phase, regTodo, containers, mu, req, overlap, nreq, pvars>>

\* ------------------------------------------------------------------- List
\* the switch of List from containerd.Status to the api's container.Status
ApiStatus(st) ==
    CASE st = CreatedStatus -> "CREATED"
      [] st = RunningStatus -> "RUNNING"
      [] st = StoppedStatus -> "STOPPED"
      [] st = PausedStatus -> "PAUSED"
      [] OTHER -> "UNKNOWN"

\* mutant of ListEntry: the record's Pid is left unset
ListEntryNoPid(h) == [id |-> objs[h].id, pid |-> 0, status |-> ApiStatus(objs[h].status)]

\* the container.Container List appends for container h
ListEntry(h) == [id |-> objs[h].id, pid |-> objs[h].pid, status |-> ApiStatus(objs[h].status)]

\* List is called: s.mu.Lock() (held to the return), the range loop starts
ListCall(t) ==
    /\ Begin(t, [name |-> "List", id |-> "", runtime |-> ""])
    /\ mu = NoThread
    /\ mu' = t
    /\ todo' = [todo EXCEPT ![t] = DOMAIN containers]
    /\ resp' = [resp EXCEPT ![t] = <<>>]
    /\ pc' = [pc EXCEPT ![t] = "l_loop"]
    /\ ret' = [ret EXCEPT ![t] = NoRet]
    /\ UNCHANGED c
    /\ UNCHANGED <<phase, regTodo, containers, objs>>

\* one iteration whose c.State succeeds: a record is appended
ListNext(t, id) ==
    /\ pc[t] = "l_loop"
    /\ id \in todo[t]
    /\ Record(t, "State", containers[id], Nil)
    /\ resp' = [resp EXCEPT ![t] = Append(@, ListEntry(containers[id]))]
    /\ todo' = [todo EXCEPT ![t] = @ \ {id}]
    /\ UNCHANGED <<phase, regTodo, containers, mu, objs, pc, req, c, ret, overlap, nreq, pvars>>

\* mutant of ListFailure: the records built so far are returned with the error
ListFailurePartial(e, sofar) == [NoRet EXCEPT !.err = e, !.list = sofar]

\* what List returns when a c.State fails with e, resp built so far
ListFailure(e, sofar) == Failure(e)

\* one iteration whose c.State fails: return nil, err (the deferred unlock runs)
ListFail(t, id) ==
    /\ pc[t] = "l_loop"
    /\ id \in todo[t]
    /\ Record(t, "State", containers[id], ErrState)
    /\ Return(t, ListFailure(ErrState, resp[t]))
    /\ mu' = NoThread
    /\ UNCHANGED <<phase, regTodo, containers, objs, req, overlap, nreq, pvars>>

\* the loop is over: return resp, nil (the deferred unlock runs)
ListReturn(t) ==
    /\ pc[t] = "l_loop"
    /\ todo[t] = {}
    /\ Return(t, [NoRet EXCEPT !.list = resp[t], !.isnil = FALSE])
    /\ mu' = NoThread
    /\ UNCHANGED <<phase, regTodo, containers, objs, req, calls, overlap, nreq, pvars>>

\* ------------------------------------------------------------ environment
\* a container's status moves on in its backend (its process exits, it is
\* paused or resumed)
BackendStatus(h, st) ==
    /\ phase = "serving"
    /\ h \in Handles
    /\ ~objs[h].deleted
    /\ \/ objs[h].status = RunningStatus /\ st \in {StoppedStatus, PausedStatus}
       \/ objs[h].status = PausedStatus /\ st \in {RunningStatus, StoppedStatus}
    /\ objs' = [objs EXCEPT ![h].status = st]
    /\ UNCHANGED <<c, todo, resp, phase, regTodo, containers, mu, pc, req, calls, ret, overlap, nreq, pvars>>

Next ==
    \/ \E r \in Runtimes : RegisterLoad(r)
    \/ \E r \in Runtimes : RegisterFail(r)
    \/ RegisterReturn
    \/ \E t \in Threads, id \in Ids, rt \in RuntimeNames : CreateCall(t, id, rt)
    \/ \E t \in Threads : CreateLock(t)
    \/ \E t \in Threads : CreateBackendFail(t)
    \/ \E t \in Threads : CreateBackendOk(t)
    \/ \E t \in Threads : CreateStateOk(t)
    \/ \E t \in Threads : CreateStateFail(t)
    \/ \E t \in Threads : CreateRollbackLock(t)
    \/ \E t \in Threads : CreateRollbackUnregister(t)
    \/ \E t \in Threads, ok \in BOOLEAN : CreateRollbackDelete(t, ok)
    \/ \E t \in Threads, id \in Ids : StartCall(t, id)
    \/ \E t \in Threads, ok \in BOOLEAN : StartContainer(t, ok)
    \/ \E t \in Threads, id \in Ids : DeleteCall(t, id)
    \/ \E t \in Threads, ok \in BOOLEAN : DeleteContainer(t, ok)
    \/ \E t \in Threads : ListCall(t)
    \/ \E t \in Threads, id \in Ids : ListNext(t, id)
    \/ \E t \in Threads, id \in Ids : ListFail(t, id)
    \/ \E t \in Threads : ListReturn(t)
    \/ \E h \in 1..(1 + MaxReqs), st \in Statuses : BackendStatus(h, st)

Spec == Init /\ [][Next]_vars

TypeOK ==
    /\ phase \in {"register", "serving", "failed"}
    /\ mu \in Threads \cup {NoThread}
    /\ DOMAIN containers \subseteq Ids
    /\ \A id \in DOMAIN containers : containers[id] \in Handles
    /\ Len(objs) <= 1 + MaxReqs


\* ------------------------------------------------------- claim vocabulary
Done(t, name) == pc[t] = "done" /\ req[t].name = name

CreateDone(t, id) == Done(t, "Create") /\ req[t].id = id

CreateOk(t, id) == CreateDone(t, id) /\ ret[t].err = Nil

\* t returns from its handler in this step, not the step of its call
Returns(t) == ~Idle(t) /\ pc'[t] = "done"

\* this step is the call of the named handler on goroutine t
CalledCreate(t) == \E id \in Ids, rt \in RuntimeNames : CreateCall(t, id, rt)

CalledStart(t) == \E id \in Ids : StartCall(t, id)

CalledDelete(t) == \E id \in Ids : DeleteCall(t, id)

CalledList(t) == ListCall(t)

\* the ids of the records of a List response
ListIds(l) == {l[i].id : i \in 1..Len(l)}

C2_DeletedIsUnregistered ==
    \A t \in Threads :
        (Done(t, "Delete") /\ ret[t].err = Nil)
            => ~(Registered(req[t].id) /\ containers[req[t].id] = calls[t][1].h)

\* ---------------------------------------------------------------- C3
\* C3: a List that returns success while a successful Create(id) is the last
\* thing another goroutine did holds exactly one record for id, with the pid
\* Create returned, and with status CREATED if the container's status is
\* created.
C3_ListAfterCreate ==
    [][\A t, u \in Threads :
        (pc[t] = "l_loop" /\ Returns(t) /\ ret'[t].err = Nil /\ CreateOk(u, req[u].id))
            => LET id == req[u].id
                   l == ret'[t].list
                   at == {i \in 1..Len(l) : l[i].id = id}
               IN  /\ Cardinality(at) = 1
                   /\ \A i \in at :
                        /\ l[i].pid = ret[u].pid
                        /\ objs[containers[id]].status = CreatedStatus => l[i].status = "CREATED"]_vars

C3_Witness ==
    \E t, u \in Threads, id \in Ids :
        /\ ~overlap
        /\ CreateOk(u, id)
        /\ Done(t, "List") /\ ret[t].err = Nil
        /\ \E i \in 1..Len(ret[t].list) :
             ret[t].list[i] = [id |-> id, pid |-> ret[u].pid, status |-> "CREATED"]


\* ---------------------------------------------------------------- C4
\* the calls t's request made were exactly the named operations, in order
CallOps(t) == [i \in 1..Len(calls[t]) |-> calls[t][i].op]

\* C4: a Create whose c.State failed after runtime.Create succeeded returns
\* only after unregistering its id and calling runtime.Delete on the container
\* it created; it returns the error of c.State, whatever runtime.Delete
\* returned, and at its return the id is not registered.
C4_StateFailureRollsBack ==
    [][\A t \in Threads :
        (Returns(t) /\ req[t].name = "Create" /\ Len(calls[t]) >= 2 /\ calls[t][2].err # Nil)
            => /\ pc[t] = "c_rb_delete"
               /\ CallOps(t)' = <<"Create", "State", "Delete">>
               /\ calls'[t][3].h = calls[t][1].h
               /\ ret'[t] = Failure(calls[t][2].err)
               /\ ~Registered(req[t].id)']_vars

C4_Witness ==
    \E t \in Threads :
        /\ Done(t, "Create")
        /\ CallOps(t) = <<"Create", "State", "Delete">>
        /\ calls[t][2].err = ErrState
        /\ calls[t][3].err = ErrBackendDelete
        /\ ret[t].err = ErrState
        /\ ~Registered(req[t].id)

\* ---------------------------------------------------------------- C5
\* C5: a Create whose runtime.Create failed returns that error, having made
\* no other call; its own steps leave the registry map as it is, and so does
\* every step taken while it is inside runtime.Create.
C5_BackendFailureRegistersNothing ==
    [][\A t \in Threads :
        /\ (Returns(t) /\ pc[t] = "c_backend" /\ calls'[t][1].err # Nil)
              => /\ ret'[t] = Failure(calls'[t][1].err)
                 /\ Len(calls'[t]) = 1
                 /\ containers' = containers
        /\ (pc[t] = "c_lock" /\ pc'[t] # pc[t]) => containers' = containers
        /\ (pc[t] = "c_backend" /\ pc'[t] = pc[t]) => containers' = containers]_vars

C5_Witness ==
    \E t \in Threads :
        /\ Done(t, "Create")
        /\ CallOps(t) = <<"Create">>
        /\ ret[t].err = ErrBackendCreate
        /\ ~Registered(req[t].id)

\* ---------------------------------------------------------------- C6
\* C6 as stated: a Create that is rejected before any backend call while its
\* id is registered is rejected with ErrContainerExists (the existence check
\* comes before the runtime is resolved).
C6_ExistenceCheckedFirst ==
    [][\A t \in Threads :
        ((Returns(t) \/ CalledCreate(t)) /\ pc'[t] = "done" /\ req'[t].name = "Create"
            /\ calls'[t] = <<>> /\ Registered(req'[t].id))
            => ret'[t].err = ErrContainerExists]_vars

\* C6 (amended): the runtime is resolved first, without the lock, and a Create
\* naming an unknown runtime returns ErrUnknownRuntime whether or not its id is
\* registered; a Create naming a configured runtime whose id is registered at
\* its existence check returns ErrContainerExists. Either way no backend
\* operation is invoked and the registry map and the backends are unchanged.
C6_RegisteredIdRejected ==
    [][\A t \in Threads :
        /\ (pc[t] = "c_lock" /\ pc'[t] # pc[t] /\ Registered(req[t].id))
              => /\ pc'[t] = "done"
                 /\ ret'[t] = Failure(ErrContainerExists)
                 /\ calls'[t] = <<>>
                 /\ containers' = containers /\ objs' = objs /\ mu' = NoThread
        /\ (CalledCreate(t) /\ req'[t].runtime \notin Runtimes)
              => /\ pc'[t] = "done"
                 /\ ret'[t] = Failure(ErrUnknownRuntime)
                 /\ calls'[t] = <<>>
                 /\ containers' = containers /\ objs' = objs /\ mu' = mu
        /\ (CalledCreate(t) /\ req'[t].runtime \in Runtimes) => pc'[t] = "c_lock"]_vars

C6_Witness ==
    \E t, u \in Threads :
        /\ t # u
        /\ Done(t, "Create") /\ ret[t].err = ErrContainerExists /\ calls[t] = <<>>
        /\ Done(u, "Create") /\ ret[u].err = ErrUnknownRuntime /\ Registered(req[u].id)

\* ---------------------------------------------------------------- C7
\* C7: Start and Delete of an id that is not registered return
\* ErrContainerNotExist, invoke no backend or container operation and leave
\* the registry map and the backends unchanged.
C7_UnknownIdNotExist ==
    [][\A t \in Threads :
        ((CalledStart(t) \/ CalledDelete(t)) /\ ~Registered(req'[t].id))
            => /\ pc'[t] = "done"
               /\ ret'[t] = Failure(ErrContainerNotExist)
               /\ calls'[t] = <<>>
               /\ containers' = containers /\ objs' = objs]_vars

C7_Witness ==
    \E t, u \in Threads :
        /\ Done(t, "Start") /\ ret[t].err = ErrContainerNotExist /\ ~Registered(req[t].id)
        /\ Done(u, "Delete") /\ ret[u].err = ErrContainerNotExist /\ ~Registered(req[u].id)

\* ---------------------------------------------------------------- C8
\* C8: a List whose c.State failed returns that error and no records; a List
\* that returns success returns one record per registered container; and the
\* registry map does not change between List's lock and its return.
C8_ListAllOrNothing ==
    [][\A t \in Threads :
        /\ (pc[t] = "l_loop" /\ Returns(t) /\ calls'[t] # <<>> /\ calls'[t][Len(calls'[t])].err # Nil)
              => ret'[t] = Failure(calls'[t][Len(calls'[t])].err)
        /\ (pc[t] = "l_loop" /\ Returns(t) /\ ret'[t].err = Nil)
              => /\ Len(ret'[t].list) = Cardinality(DOMAIN containers)
                 /\ ListIds(ret'[t].list) = DOMAIN containers
                 /\ \A i \in 1..Len(calls'[t]) : calls'[t][i].err = Nil
                 /\ ~ret'[t].isnil
        /\ pc[t] = "l_loop" => containers' = containers]_vars

C8_Witness ==
    \E t \in Threads :
        /\ Done(t, "List")
        /\ Len(calls[t]) = 2
        /\ calls[t][1].err = Nil /\ calls[t][2].err = ErrState
        /\ ret[t] = Failure(ErrState)

\* ---------------------------------------------------------------- C9
\* the places of Create inside a call of the runtime backend
InBackend == {"c_backend", "c_rb_delete"}

\* the places of a handler that is waiting for s.mu
AtLock == {"c_lock", "c_rb_lock"}

C10_EveryWriteUnderLock ==
    [][containers' # containers => (mu \in Threads /\ pc'[mu] # pc[mu])]_vars

\* C10 (amended): every step of a request handler that changes the registry
\* map (Create's insert, the removal of Create's rollback) is taken by the
\* goroutine that holds s.mu; Register's inserts are made without the lock, at
\* startup, when no request handler runs.
C10_HandlerWritesUnderLock ==
    [][containers' # containers
        => \/ mu \in Threads /\ pc'[mu] # pc[mu] /\ pc[mu] \in {"c_backend", "c_rb_unreg"}
           \/ /\ phase = "register" /\ mu = NoThread
              /\ \A t \in Threads : pc[t] = "idle"]_vars

C10_Witness ==
    \E t \in Threads :
        /\ pc[t] = "c_rb_delete" /\ mu = t
        /\ ~Registered(req[t].id)
        /\ \E id \in Ids : Registered(id) /\ containers[id] = 1 /\ objs[1].status = RunningStatus

\* ---------------------------------------------------------------- C17
\* the containers t's current request called runtime.Delete on
DeleteCalls(t) == {calls[t][i].h : i \in {j \in 1..Len(calls[t]) : calls[t][j].op = "Delete"}}

\* C17: the entry of a Create that ends in failure is not seen by a concurrent
\* Delete, so runtime.Delete is called on the container of such a Create by
\* its rollback alone, never by a Delete request as well.
C17_FailedCreateUnobserved ==
    \A t, u \in Threads :
        (t # u /\ Done(t, "Create") /\ ret[t].err # Nil /\ calls[t] # <<>> /\ req[u].name = "Delete")
            => calls[t][1].h \notin DeleteCalls(u)

\* ---------------------------------------------------------------- C18
\* the goroutines whose current Create has called runtime.Create
ReachedBackend(id) ==
    {t \in Threads : req[t].name = "Create" /\ req[t].id = id /\ ~Idle(t) /\ calls[t] # <<>>}
        \cup {t \in Threads : Done(t, "Create") /\ req[t].id = id /\ calls[t] # <<>>}

\* the backend containers that exist and are not registered
Orphans == {h \in Handles : ~objs[h].deleted /\ \A id \in DOMAIN containers : containers[id] # h}

\* C18 as stated: two concurrent Create calls for one id never both call
\* runtime.Create, and no Create that does not end registered leaves a backend
\* container that is not registered.
C18_NeverBothReachBackend ==
    \A id \in Ids :
        /\ overlap => Cardinality(ReachedBackend(id)) <= 1
        /\ \A t \in Threads :
              (Done(t, "Create") /\ req[t].id = id /\ ret[t].err # Nil /\ calls[t] # <<>>)
                  => calls[t][1].h \notin Orphans

\* C18 (amended): runtime.Create is called only by the goroutine holding s.mu
\* and only for an id that is not registered at that moment, so two Creates
\* are never inside runtime.Create together and the second of two concurrent
\* Creates for one id reaches the backend only after the first has failed or
\* has rolled back; a Create rejected with ErrContainerExists has called no
\* backend; and a container that exists unregistered is either still in its
\* Create's rollback or one whose compensating runtime.Delete failed.
C18_BackendCreateSerialized ==
    /\ [](\A t, u \in Threads : (pc[t] = "c_backend" /\ pc[u] = "c_backend") => t = u)
    /\ [](\A t \in Threads : pc[t] = "c_backend" => mu = t /\ ~Registered(req[t].id))
    /\ [](\A t \in Threads :
            (Done(t, "Create") /\ ret[t].err = ErrContainerExists) => calls[t] = <<>>)
    /\ [][\A t \in Threads :
            (pc[t] = "c_backend" /\ pc'[t] # pc[t] /\ objs' # objs)
                => /\ ~Registered(req[t].id)
                   /\ Registered(req[t].id)' /\ containers'[req[t].id] = Len(objs')
                   /\ \A u \in Threads \ {t} :
                        (req[u].name = "Create" /\ req[u].id = req[t].id /\ ~Idle(u))
                            => pc[u] \in {"c_lock", "c_rb_lock"}]_vars
    /\ [][\A t \in Threads :
            (pc[t] = "c_rb_delete" /\ pc'[t] = "done" /\ calls'[t][3].err = Nil)
                => calls[t][1].h \notin Orphans']_vars

C18_Witness ==
    \E t, u \in Threads :
        /\ t # u /\ overlap
        /\ pc[t] = "c_state" /\ pc[u] = "c_lock" /\ req[u] = req[t]
        /\ Registered(req[t].id) /\ containers[req[t].id] = c[t]

\* ---------------------------------------------------------------- C19
\* the goroutines run, the lock is granted to a goroutine that keeps asking
\* for it, and the backend and container calls return
Fairness ==
    \A t \in Threads :
        /\ SF_vars(CreateLock(t))
        /\ SF_vars(CreateRollbackLock(t))
        /\ WF_vars(CreateBackendFail(t) \/ CreateBackendOk(t))
        /\ WF_vars(CreateStateOk(t) \/ CreateStateFail(t))
        /\ WF_vars(CreateRollbackUnregister(t))
        /\ WF_vars(\E ok \in BOOLEAN : CreateRollbackDelete(t, ok))
        /\ WF_vars(\E ok \in BOOLEAN : StartContainer(t, ok))
        /\ WF_vars(\E ok \in BOOLEAN : DeleteContainer(t, ok))
        /\ WF_vars(ListReturn(t) \/ \E id \in Ids : (ListNext(t, id) \/ ListFail(t, id)))

FairSpec == Init /\ [][Next]_vars /\ Fairness

\* the places of a handler at which it holds s.mu
HoldsLock == {"c_backend", "c_rb_unreg", "c_rb_delete", "l_loop"}

\* C19: s.mu is held by a goroutine exactly at the places between a Lock and
\* its Unlock, so never by a goroutine that has returned, and every step that
\* leaves such a place by returning or moving on releases it; every goroutine
\* waiting for the lock gets it and every request returns.
C19_LockAlwaysReleased ==
    /\ [](\A t \in Threads : (mu = t) <=> (pc[t] \in HoldsLock))
    /\ [](mu \in Threads \cup {NoThread})
    /\ \A t \in Threads : (pc[t] \in AtLock) ~> (pc[t] \notin AtLock)
    /\ \A t \in Threads : (~Idle(t)) ~> Idle(t)

C19_Witness ==
    \E t, u \in Threads :
        /\ t # u
        /\ pc[t] = "c_rb_lock" /\ pc[u] = "l_loop" /\ mu = u
        /\ Len(resp[u]) >= 1

\* ======================================================================
\* The process supervisor: src/runtime/process.go
\* ======================================================================

\* the loop bound of getPid
PidRetries == 20

ErrProcessNotExited == "containerd: process has not exited"
ErrPidTimeout == "containerd: cannot read pid file"
ErrNotExist == "no such file or directory"
ErrPermission == "permission denied"
ErrSyntax == "strconv.Atoi: invalid syntax"
ErrInvalid == "invalid argument"
ErrClosed == "file already closed"
ErrPipe == "broken pipe"
ErrRootIDs == "getRootIDs failed"
ErrCreateFile == "os.Create failed"
ErrEncode == "Encode failed"
ErrExitPipe == "getExitPipe failed"
ErrControlPipe == "getControlPipe failed"

\* ------------------------------------------------- strconv and fmt
Digits == <<"0", "1", "2", "3", "4", "5", "6", "7", "8", "9">>

IsDigit(ch) == \E d \in 1..10 : Digits[d] = ch

DigitVal(ch) == (CHOOSE d \in 1..10 : Digits[d] = ch) - 1

RECURSIVE DigitsVal(_)
DigitsVal(s) ==
    IF s = <<>> THEN 0
    ELSE DigitsVal(SubSeq(s, 1, Len(s) - 1)) * 10 + DigitVal(s[Len(s)])

\* strconv.Atoi: an optional sign and then one or more digits, nothing else
Atoi(s) ==
    LET signed == s # <<>> /\ s[1] \in {"-", "+"}
        digits == IF signed THEN Tail(s) ELSE s
    IN  IF digits = <<>> \/ \E i \in 1..Len(digits) : ~IsDigit(digits[i])
          THEN [val |-> 0, err |-> ErrSyntax]
          ELSE [val |-> IF s[1] = "-" THEN 0 - DigitsVal(digits) ELSE DigitsVal(digits),
                err |-> Nil]

RECURSIVE ItoaNat(_)
ItoaNat(n) ==
    IF n < 10 THEN <<Digits[n + 1]>>
    ELSE ItoaNat(n \div 10) \o <<Digits[(n % 10) + 1]>>

\* the verb %d
Itoa(n) == IF n < 0 THEN <<"-">> \o ItoaNat(0 - n) ELSE ItoaNat(n)

\* mutant of Format: the record is not ended by a newline
FormatNoNewline(a, b, d) == Itoa(a) \o <<" ">> \o Itoa(b) \o <<" ">> \o Itoa(d)

\* fmt.Fprintf(w, "%d %d %d\n", a, b, c): the bytes handed to w.Write
Format(a, b, d) == Itoa(a) \o <<" ">> \o Itoa(b) \o <<" ">> \o Itoa(d) \o <<"\n">>

\* ------------------------------------------------- files
Present(data) == [st |-> "present", data |-> data]
Unreadable == [st |-> "unreadable", data |-> <<>>]

\* what a pid file and an exit status file may hold
PidContents == {<<"7">>, <<"1", "2">>, <<>>, <<"x">>, <<"7", "\n">>}
ExitContents == {<<"0">>, <<"1", "3", "7">>, <<"-", "1">>, <<"x">>}

\* ioutil.ReadFile
ReadFile(f) ==
    CASE f.st = "absent" -> [data |-> <<>>, err |-> ErrNotExist]
      [] f.st = "unreadable" -> [data |-> <<>>, err |-> ErrPermission]
      [] OTHER -> [data |-> f.data, err |-> Nil]

\* os.IsNotExist
IsNotExist(e) == e = ErrNotExist

\* ------------------------------------------------- the supervisor's code
NewFailures == {"none", "getRootIDs", "os.Create", "Encode", "getExitPipe", "getControlPipe"}

\* the error newProcess returns when the step failAt fails
SetupErr(failAt) ==
    CASE failAt = "getRootIDs" -> ErrRootIDs
      [] failAt = "os.Create" -> ErrCreateFile
      [] failAt = "Encode" -> ErrEncode
      [] failAt = "getExitPipe" -> ErrExitPipe
      [] failAt = "getControlPipe" -> ErrControlPipe
      [] OTHER -> Nil

\* the files newProcess has opened, and closed, when it returns: process.json
\* is closed by the deferred f.Close(); the pipes are closed by nothing
NewFds(failAt) ==
    [json |-> IF failAt \in {"getRootIDs", "os.Create"} THEN "none" ELSE "closed",
     exit |-> IF failAt \in {"getControlPipe", "none"} THEN "open" ELSE "none",
     control |-> IF failAt = "none" THEN "open" ELSE "none"]

\* newProcess(config) in a new process directory
NewProcess(failAt) ==
    /\ ppc = "none"
    /\ pidFile = Absent /\ exitFile = Absent /\ ~spawned
    /\ kind' = "new"
    /\ fds' = NewFds(failAt)
    /\ p' = IF failAt = "none"
              THEN [pid |-> 0, exitPipe |-> ExitPipeFile, controlPipe |-> ControlPipeFile]
              ELSE NoProcess
    /\ ppc' = IF failAt = "none" THEN "ready" ELSE "failed"
    /\ pret' = [op |-> "newProcess", val |-> 0, err |-> SetupErr(failAt)]
    /\ UNCHANGED <<pidFile, exitFile, spawned, tries, reads, ctl, statusSeen, nops>>
    /\ UNCHANGED svars

\* mutant of ExitStatus: an empty file is parsed like any other
ExitStatusNoEmptyCheck(f) ==
    IF ReadFile(f).err # Nil
      THEN IF IsNotExist(ReadFile(f).err)
             THEN [val |-> -1, err |-> ErrProcessNotExited]
             ELSE [val |-> -1, err |-> ReadFile(f).err]
      ELSE Atoi(ReadFile(f).data)

\* p.ExitStatus() on the exit status file f
ExitStatus(f) ==
    IF ReadFile(f).err # Nil
      THEN IF IsNotExist(ReadFile(f).err)
             THEN [val |-> -1, err |-> ErrProcessNotExited]
             ELSE [val |-> -1, err |-> ReadFile(f).err]
      ELSE IF Len(ReadFile(f).data) = 0
             THEN [val |-> -1, err |-> ErrProcessNotExited]
             ELSE Atoi(ReadFile(f).data)

\* one iteration of getPid's loop on the pid file f: retry (continue), or
\* return val, err
getPidRead(f) ==
    IF ReadFile(f).err # Nil
      THEN IF IsNotExist(ReadFile(f).err)
             THEN [retry |-> TRUE, val |-> 0, err |-> Nil]
             ELSE [retry |-> FALSE, val |-> -1, err |-> ReadFile(f).err]
      ELSE IF Atoi(ReadFile(f).data).err # Nil
             THEN [retry |-> FALSE, val |-> -1, err |-> Atoi(ReadFile(f).data).err]
             ELSE [retry |-> FALSE, val |-> Atoi(ReadFile(f).data).val, err |-> Nil]

\* mutant of getPidReturn: loadProcess goes on whatever getPid returns
getPidReturnIgnoresError(val, err) ==
    /\ p' = IF err = Nil THEN [p EXCEPT !.pid = val] ELSE p
    /\ IF ppc = "getpid"
         THEN /\ ppc' = "ready"
              /\ pret' = [op |-> "getPid", val |-> val, err |-> err]
         ELSE /\ ppc' = "load_exit"
              /\ pret' = pret

\* getPid returns val, err: to its caller on a built supervisor, or into
\* loadProcess, which gives up on an error and goes on to ExitStatus otherwise
getPidReturn(val, err) ==
    /\ p' = IF err = Nil THEN [p EXCEPT !.pid = val] ELSE p
    /\ IF ppc = "getpid"
         THEN /\ ppc' = "ready"
              /\ pret' = [op |-> "getPid", val |-> val, err |-> err]
         ELSE IF err # Nil
                THEN /\ ppc' = "failed"
                     /\ pret' = [op |-> "loadProcess", val |-> 0, err |-> err]
                ELSE /\ ppc' = "load_exit"
                     /\ pret' = pret

\* loadProcess(root, id, c, s) is called on a process directory
LoadBegin ==
    /\ ppc = "none"
    /\ kind' = "load"
    /\ ppc' = "load_pid"
    /\ tries' = 0 /\ reads' = 0
    /\ UNCHANGED <<p, fds, pidFile, exitFile, spawned, ctl, pret, statusSeen, nops>>
    /\ UNCHANGED svars

\* p.getPid() is called on a built supervisor
GetPidCall ==
    /\ ppc = "ready" /\ nops < MaxOps
    /\ ppc' = "getpid"
    /\ tries' = 0 /\ reads' = 0
    /\ nops' = nops + 1
    /\ UNCHANGED <<kind, p, fds, pidFile, exitFile, spawned, ctl, pret, statusSeen>>
    /\ UNCHANGED svars

\* mutant of GetPidIteration: every ReadFile error is retried
GetPidIterationRetriesAll ==
    /\ ppc \in {"load_pid", "getpid"}
    /\ tries < PidRetries
    /\ reads' = reads + 1
    /\ IF ReadFile(pidFile).err # Nil
         THEN /\ tries' = tries + 1
              /\ UNCHANGED <<ppc, p, pret>>
         ELSE /\ getPidReturn(getPidRead(pidFile).val, getPidRead(pidFile).err)
              /\ UNCHANGED tries
    /\ UNCHANGED <<kind, fds, pidFile, exitFile, spawned, ctl, statusSeen, nops>>
    /\ UNCHANGED svars

\* one iteration of the loop: ReadFile, then continue or return
GetPidIteration ==
    /\ ppc \in {"load_pid", "getpid"}
    /\ tries < PidRetries
    /\ reads' = reads + 1
    /\ IF getPidRead(pidFile).retry
         THEN /\ tries' = tries + 1
              /\ UNCHANGED <<ppc, p, pret>>
         ELSE /\ getPidReturn(getPidRead(pidFile).val, getPidRead(pidFile).err)
              /\ UNCHANGED tries
    /\ UNCHANGED <<kind, fds, pidFile, exitFile, spawned, ctl, statusSeen, nops>>
    /\ UNCHANGED svars

\* the loop ends: return -1, fmt.Errorf("containerd: cannot read pid file")
GetPidTimeout ==
    /\ ppc \in {"load_pid", "getpid"}
    /\ ~(tries < PidRetries)
    /\ getPidReturn(-1, ErrPidTimeout)
    /\ UNCHANGED <<kind, fds, pidFile, exitFile, spawned, tries, reads, ctl, statusSeen, nops>>
    /\ UNCHANGED svars

\* mutant of LoadExit: the exit pipe is opened whatever ExitStatus returns
LoadExitAlwaysOpens(pipeOk) ==
    /\ ppc = "load_exit"
    /\ pret' = [op |-> "loadProcess", val |-> 0, err |-> IF pipeOk THEN Nil ELSE ErrExitPipe]
    /\ ppc' = IF pipeOk THEN "ready" ELSE "failed"
    /\ p' = IF pipeOk THEN [p EXCEPT !.exitPipe = ExitPipeFile] ELSE NoProcess
    /\ fds' = IF pipeOk THEN [fds EXCEPT !.exit = "open"] ELSE fds
    /\ UNCHANGED <<kind, pidFile, exitFile, spawned, tries, reads, ctl, statusSeen, nops>>
    /\ UNCHANGED svars

\* loadProcess after getPid: p.ExitStatus(), and getExitPipe when the process
\* has not exited
LoadExit(pipeOk) ==
    /\ ppc = "load_exit"
    /\ pret' = [op |-> "loadProcess", val |-> 0,
                err |-> IF ExitStatus(exitFile).err = ErrProcessNotExited
                          THEN IF pipeOk THEN Nil ELSE ErrExitPipe
                          ELSE ExitStatus(exitFile).err]
    /\ ppc' = IF pret'.err = Nil THEN "ready" ELSE "failed"
    /\ IF ExitStatus(exitFile).err = ErrProcessNotExited /\ pipeOk
         THEN /\ p' = [p EXCEPT !.exitPipe = ExitPipeFile]
              /\ fds' = [fds EXCEPT !.exit = "open"]
         ELSE /\ p' = IF pret'.err = Nil THEN p ELSE NoProcess
              /\ UNCHANGED fds
    /\ UNCHANGED <<kind, pidFile, exitFile, spawned, tries, reads, ctl, statusSeen, nops>>
    /\ UNCHANGED svars

\* a call on the built supervisor starts
OpBegin ==
    /\ ppc = "ready" /\ nops < MaxOps
    /\ nops' = nops + 1

\* p.ExitStatus() called on the built supervisor
ExitStatusCall ==
    /\ OpBegin
    /\ pret' = [op |-> "ExitStatus", val |-> ExitStatus(exitFile).val, err |-> ExitStatus(exitFile).err]
    /\ statusSeen' = (statusSeen \/ ExitStatus(exitFile).err = Nil)
    /\ UNCHANGED <<ppc, kind, p, fds, pidFile, exitFile, spawned, tries, reads, ctl>>
    /\ UNCHANGED svars

\* (*os.File).Close on the field f of the process struct whose descriptor is
\* in state st: the error returned
FileCloseErr(f, st) ==
    IF f = NilFile THEN ErrInvalid
    ELSE IF st = "closed" THEN ErrClosed
    ELSE Nil

\* p.Close(): p.exitPipe.Close() and nothing else
Close ==
    /\ OpBegin
    /\ fds' = IF FileCloseErr(p.exitPipe, fds.exit) = Nil THEN [fds EXCEPT !.exit = "closed"] ELSE fds
    /\ pret' = [op |-> "Close", val |-> 0, err |-> FileCloseErr(p.exitPipe, fds.exit)]
    /\ UNCHANGED <<ppc, kind, p, pidFile, exitFile, spawned, tries, reads, ctl, statusSeen>>
    /\ UNCHANGED svars

\* the widths and heights Resize is called with
Widths == {80, -1}
Heights == {24, 0}

\* fmt.Fprintf(p.controlPipe, "%d %d %d\n", a, b, d): a nil *os.File refuses
\* the Write, an open pipe takes the record whole or fails
Fprintf(op, a, b, d, ok) ==
    /\ pret' = [op |-> op, val |-> 0,
                err |-> IF p.controlPipe = NilFile THEN ErrInvalid
                        ELSE IF ok THEN Nil ELSE ErrPipe]
    /\ ctl' = IF pret'.err = Nil THEN Append(ctl, Format(a, b, d)) ELSE ctl

\* p.CloseStdin()
CloseStdin(ok) ==
    /\ OpBegin
    /\ Fprintf("CloseStdin", 0, 0, 0, ok)
    /\ UNCHANGED <<ppc, kind, p, fds, pidFile, exitFile, spawned, tries, reads, statusSeen>>
    /\ UNCHANGED svars

\* p.Resize(w, h)
Resize(w, h, ok) ==
    /\ OpBegin
    /\ Fprintf("Resize", 1, w, h, ok)
    /\ UNCHANGED <<ppc, kind, p, fds, pidFile, exitFile, spawned, tries, reads, statusSeen>>
    /\ UNCHANGED svars

\* p.SystemPid()
SystemPid == p.pid

\* ------------------------------------------------- the process directory
\* the container's process is started once its supervisor is built
Spawn ==
    /\ ppc = "ready" /\ kind = "new" /\ ~spawned
    /\ spawned' = TRUE
    /\ UNCHANGED <<ppc, kind, p, fds, pidFile, exitFile, tries, reads, ctl, pret, statusSeen, nops>>
    /\ UNCHANGED svars

\* the started process's pid file appears, written once
WritePid(data) ==
    /\ spawned /\ pidFile.st = "absent"
    /\ pidFile' = Present(data)
    /\ UNCHANGED <<ppc, kind, p, fds, exitFile, spawned, tries, reads, ctl, pret, statusSeen, nops>>
    /\ UNCHANGED svars

\* the exit status file is created, empty, after the pid file
CreateExit ==
    /\ spawned /\ pidFile.st # "absent" /\ exitFile.st = "absent"
    /\ exitFile' = Present(<<>>)
    /\ UNCHANGED <<ppc, kind, p, fds, pidFile, spawned, tries, reads, ctl, pret, statusSeen, nops>>
    /\ UNCHANGED svars

\* the exit status is written to it, once
WriteExit(data) ==
    /\ spawned /\ exitFile = Present(<<>>)
    /\ exitFile' = Present(data)
    /\ UNCHANGED <<ppc, kind, p, fds, pidFile, spawned, tries, reads, ctl, pret, statusSeen, nops>>
    /\ UNCHANGED svars

\* the process directories a supervisor is built on: a new one, or one left
\* by an earlier run, its pid file written before its exit status file
Directories ==
    {d \in [pid : {Absent, Unreadable} \cup {Present(x) : x \in PidContents},
            exit : {Absent, Unreadable, Present(<<>>)} \cup {Present(x) : x \in ExitContents},
            spawned : BOOLEAN] :
        /\ (d.pid # Absent => d.spawned)
        /\ (d.exit # Absent => d.pid # Absent)}

\* the registry service is not running
SvcRest ==
    /\ phase = "register" /\ regTodo = Runtimes /\ containers = <<>> /\ mu = NoThread
    /\ objs = <<>>
    /\ pc = [t \in Threads |-> "idle"] /\ req = [t \in Threads |-> NoReq]
    /\ c = [t \in Threads |-> NoContainer] /\ todo = [t \in Threads |-> {}]
    /\ resp = [t \in Threads |-> <<>>] /\ calls = [t \in Threads |-> <<>>]
    /\ ret = [t \in Threads |-> NoRet] /\ overlap = FALSE /\ nreq = 0

ProcInit ==
    /\ SvcRest
    /\ ppc = "none" /\ kind = "none" /\ p = NoProcess /\ fds = NoFds
    /\ \E d \in Directories : pidFile = d.pid /\ exitFile = d.exit /\ spawned = d.spawned
    /\ tries = 0 /\ reads = 0 /\ ctl = <<>> /\ pret = NoPRet
    /\ statusSeen = FALSE /\ nops = 0

ProcNext ==
    \/ \E failAt \in NewFailures : NewProcess(failAt)
    \/ LoadBegin
    \/ GetPidCall
    \/ GetPidIteration
    \/ GetPidTimeout
    \/ \E pipeOk \in BOOLEAN : LoadExit(pipeOk)
    \/ ExitStatusCall
    \/ Close
    \/ \E ok \in BOOLEAN : CloseStdin(ok)
    \/ \E w \in Widths, h \in Heights, ok \in BOOLEAN : Resize(w, h, ok)
    \/ Spawn
    \/ \E data \in PidContents : WritePid(data)
    \/ CreateExit
    \/ \E data \in ExitContents : WriteExit(data)

ProcSpec == ProcInit /\ [][ProcNext]_vars

\* getPid's loop runs to its return, and loadProcess to its own
ProcFairness ==
    /\ WF_vars(GetPidIteration)
    /\ WF_vars(GetPidTimeout)
    /\ WF_vars(\E pipeOk \in BOOLEAN : LoadExit(pipeOk))

ProcFairSpec == ProcInit /\ [][ProcNext]_vars /\ ProcFairness

ProcTypeOK ==
    /\ ppc \in {"none", "load_pid", "load_exit", "getpid", "ready", "failed"}
    /\ kind \in {"none", "new", "load"}
    /\ p.exitPipe \in {NilFile, ExitPipeFile} /\ p.controlPipe \in {NilFile, ControlPipeFile}
    /\ \A f \in {"json", "exit", "control"} : fds[f] \in {"none", "open", "closed"}
    /\ tries \in 0..PidRetries /\ reads \in {tries, tries + 1}
    /\ nops \in 0..MaxOps

\* ---------------------------------------------------------------- C11
\* C11: a newProcess that fails has released everything it opened: when it
\* returns its error, none of process.json, the exit pipe and the control pipe
\* is left open.
C11_FailedConstructionLeavesNothingOpen ==
    (kind = "new" /\ ppc = "failed") =>
        \A f \in {"json", "exit", "control"} : fds[f] # "open"

\* ---------------------------------------------------------------- C12
\* the file holds an integer
HoldsInteger(f) == f.st = "present" /\ Atoi(f.data).err = Nil

\* the file is absent or empty
AbsentOrEmpty(f) == f.st = "absent" \/ (f.st = "present" /\ f.data = <<>>)

\* loadProcess leaves its PID discovery
LoadPidEnds == ppc = "load_pid" /\ ppc' # "load_pid"

\* loadProcess returns
LoadReturns == ppc = "load_exit" /\ ppc' # "load_exit"

\* loadProcess has returned its error e and no supervisor
LoadFailed(e) ==
    ppc' = "failed" /\ pret'.op = "loadProcess" /\ pret'.err = e /\ e # Nil /\ p' = NoProcess

\* PID discovery comes first: loadProcess goes on to the exit status with the
\* integer of the pid file as its PID, or returns the discovery error with
\* nothing opened
LoadDiscoversPid ==
    /\ [](kind = "load" /\ ppc = "load_pid" => fds = NoFds /\ p = NoProcess)
    /\ [][LoadPidEnds =>
            IF HoldsInteger(pidFile) /\ tries < PidRetries
              THEN ppc' = "load_exit" /\ p'.pid = Atoi(pidFile.data).val /\ fds' = NoFds
              ELSE /\ \E e \in {ErrPidTimeout, ErrPermission, ErrSyntax} : LoadFailed(e)
                   /\ pret'.err = ErrPidTimeout <=> ~(tries < PidRetries)
                   /\ fds' = NoFds]_vars

\* an exit status that is present: success, no exit pipe opened
LoadOfExited ==
    [][LoadReturns /\ HoldsInteger(exitFile) =>
            ppc' = "ready" /\ pret'.err = Nil /\ p'.exitPipe = NilFile /\ fds' = NoFds
            /\ p'.pid = p.pid]_vars

\* any other failure to read the exit status: loadProcess fails with it
LoadOfUnreadable ==
    [][LoadReturns /\ ~HoldsInteger(exitFile) /\ ~AbsentOrEmpty(exitFile) =>
            (LoadFailed(ErrPermission) \/ LoadFailed(ErrSyntax)) /\ fds' = NoFds]_vars

\* the supervisor loadProcess returns for a process that has not exited
LoadedWithExitPipe ==
    ppc' = "ready" /\ pret'.err = Nil /\ p'.exitPipe = ExitPipeFile /\ fds'.exit = "open"
    /\ fds.exit = "none" /\ p'.pid = p.pid

\* C12 as stated: loadProcess rediscovers the PID first and fails with the
\* discovery error; with the exit status present it succeeds and opens no exit
\* pipe; for a process that has not exited it succeeds with a newly opened
\* exit pipe; any other exit status read failure makes it fail.
C12_NotExitedLoadSucceeds ==
    /\ LoadDiscoversPid
    /\ LoadOfExited
    /\ [][LoadReturns /\ AbsentOrEmpty(exitFile) => LoadedWithExitPipe]_vars
    /\ LoadOfUnreadable

\* C12 amended: as stated, except that for a process that has not exited
\* loadProcess succeeds with a newly opened exit pipe when getExitPipe
\* succeeds, and fails with getExitPipe's error, nothing opened, when it fails.
C12_LoadFollowsExitStatus ==
    /\ LoadDiscoversPid
    /\ LoadOfExited
    /\ [][LoadReturns /\ AbsentOrEmpty(exitFile) =>
            LoadedWithExitPipe \/ (LoadFailed(ErrExitPipe) /\ fds' = NoFds)]_vars
    /\ LoadOfUnreadable

\* loadProcess has returned a supervisor of a running process whose pid file
\* appeared after some retries
C12_Witness ==
    /\ kind = "load" /\ ppc = "ready" /\ nops = 0
    /\ tries > 0 /\ p.pid = 12
    /\ p.exitPipe = ExitPipeFile /\ fds.exit = "open"
    /\ AbsentOrEmpty(exitFile)

\* ---------------------------------------------------------------- C13
\* getPid is running, inside loadProcess or called on a built supervisor
Discovering == ppc \in {"load_pid", "getpid"}

\* getPid returns
DiscoveryEnds == Discovering /\ ppc' # ppc

\* getPid has returned val, err (loadProcess passes the error on)
DiscoveryReturned(val, err) ==
    IF ppc = "getpid"
      THEN ppc' = "ready" /\ pret' = [op |-> "getPid", val |-> val, err |-> err]
      ELSE IF err = Nil THEN ppc' = "load_exit" ELSE LoadFailed(err)

\* C13: getPid terminates after at most 20 reads of the pid file. A read that
\* finds an integer ends it with exactly that integer, which SystemPid reports
\* from then on; a read that finds the file absent is retried; any other read
\* or parse error ends it at once with that error; and after 20 absences it
\* ends, without another read, with the timeout error, which is none of the
\* other errors.
C13_GetPidTerminates ==
    /\ [](reads <= PidRetries)
    /\ Discovering ~> ~Discovering
    /\ [][Discovering /\ reads' # reads =>
            /\ reads' = reads + 1 /\ tries < PidRetries
            /\ (pidFile.st = "absent" <=> ~DiscoveryEnds)
            /\ (pidFile.st = "absent" => tries' = tries + 1 /\ p' = p /\ pret' = pret)]_vars
    /\ [][DiscoveryEnds =>
            IF reads' # reads
              THEN CASE HoldsInteger(pidFile) ->
                          /\ DiscoveryReturned(Atoi(pidFile.data).val, Nil)
                          /\ SystemPid' = Atoi(pidFile.data).val
                     [] pidFile.st = "unreadable" ->
                          DiscoveryReturned(-1, ErrPermission) /\ SystemPid' = SystemPid
                     [] OTHER ->
                          DiscoveryReturned(-1, ErrSyntax) /\ SystemPid' = SystemPid
              ELSE /\ reads = PidRetries /\ tries = PidRetries
                   /\ DiscoveryReturned(-1, ErrPidTimeout) /\ SystemPid' = SystemPid]_vars
    /\ [](ppc = "ready" /\ SystemPid # 0 =>
            HoldsInteger(pidFile) /\ SystemPid = Atoi(pidFile.data).val)
    /\ [](ErrPidTimeout \notin {Nil, ErrNotExist, ErrPermission, ErrSyntax})

\* getPid on a built supervisor has returned the integer of a pid file that
\* appeared after some retries
C13_Witness ==
    /\ ppc = "ready" /\ pret = [op |-> "getPid", val |-> 12, err |-> Nil]
    /\ tries > 1 /\ reads = tries + 1
    /\ SystemPid = 12

\* getPid has given up after 20 reads
C13_TimeoutReached ==
    /\ ppc = "ready" /\ pret = [op |-> "getPid", val |-> -1, err |-> ErrPidTimeout]
    /\ reads = PidRetries

\* ---------------------------------------------------------------- C14
\* p.ExitStatus() is called on the built supervisor and returns
ExitStatusReturns ==
    ppc = "ready" /\ ppc' = "ready" /\ nops' = nops + 1 /\ pret'.op = "ExitStatus"

\* C14: ExitStatus returns ErrProcessNotExited exactly when the exit status
\* file is absent or empty, as it is right after newProcess; it returns the
\* integer the file holds when it holds one; and it returns another error,
\* not ErrProcessNotExited, when the file is unreadable or not a number.
C14_NotExitedIffAbsentOrEmpty ==
    /\ [][ExitStatusReturns =>
            /\ (pret'.err = ErrProcessNotExited <=> AbsentOrEmpty(exitFile))
            /\ (AbsentOrEmpty(exitFile) => pret'.val = -1)
            /\ (HoldsInteger(exitFile) => pret'.err = Nil /\ Itoa(pret'.val) = exitFile.data)
            /\ (exitFile.st = "unreadable" => pret'.err = ErrPermission)
            /\ (exitFile.st = "present" /\ exitFile.data # <<>> /\ ~HoldsInteger(exitFile)
                    => pret'.err = ErrSyntax)
            /\ (pret'.err = Nil => HoldsInteger(exitFile))]_vars
    /\ [][ExitStatusReturns /\ kind = "new" /\ ~spawned =>
            pret' = [op |-> "ExitStatus", val |-> -1, err |-> ErrProcessNotExited]]_vars
    /\ [](ErrProcessNotExited \notin {Nil, ErrPermission, ErrSyntax})

\* a supervisor built by newProcess has reported the exit status 137 of its
\* process
C14_Witness ==
    /\ kind = "new" /\ ppc = "ready"
    /\ pret = [op |-> "ExitStatus", val |-> 137, err |-> Nil]
    /\ exitFile = Present(<<"1", "3", "7">>)

\* ExitStatus has been called right after newProcess and on an empty file
C14_NotExitedReached ==
    /\ pret = [op |-> "ExitStatus", val |-> -1, err |-> ErrProcessNotExited]
    /\ exitFile = Present(<<>>)

\* ---------------------------------------------------------------- C15
\* the PID of a supervisor never changes once it is discovered
PidIsFinal == [][SystemPid # 0 /\ ppc' # "failed" => SystemPid' = SystemPid]_vars

\* once ExitStatus has returned a status it does not return
\* ErrProcessNotExited again
StatusIsFinal ==
    /\ [][ExitStatusReturns /\ statusSeen =>
            pret'.err = Nil /\ Itoa(pret'.val) = exitFile.data /\ exitFile' = exitFile]_vars
    /\ [](statusSeen => HoldsInteger(exitFile))

\* C15 as stated: every supervisor moves forward only, Created (PID unknown,
\* SystemPid = 0), Running (PID known), Exited (status known): its PID never
\* changes once discovered, ExitStatus returns no status while the PID is
\* unknown, and after a status it never returns ErrProcessNotExited again.
C15_NoStatusBeforePid ==
    /\ PidIsFinal
    /\ [][ExitStatusReturns /\ pret'.err = Nil => SystemPid # 0]_vars
    /\ StatusIsFinal

\* C15 amended: the PID never changes once discovered and a status, once
\* returned, stays; a supervisor returned by loadProcess knows its PID, so it
\* returns no status with the PID unknown; a supervisor built by newProcess
\* learns its PID only from a getPid after the process is started, and its
\* ExitStatus does not depend on that.
C15_PidAndStatusAreFinal ==
    /\ PidIsFinal
    /\ StatusIsFinal
    /\ [](kind = "load" /\ ppc = "ready" => SystemPid # 0)
    /\ [][ExitStatusReturns /\ kind = "load" /\ pret'.err = Nil => SystemPid # 0]_vars
    /\ [](kind = "new" /\ SystemPid # 0 => spawned /\ HoldsInteger(pidFile))
    /\ [][ExitStatusReturns =>
            (pret'.err = Nil <=> HoldsInteger(exitFile)) /\ SystemPid' = SystemPid]_vars

\* a supervisor built by newProcess has discovered its PID and then reported
\* the exit status twice
C15_Witness ==
    /\ kind = "new" /\ ppc = "ready" /\ nops = 3
    /\ SystemPid = 7 /\ statusSeen
    /\ pret = [op |-> "ExitStatus", val |-> 0, err |-> Nil]

\* ---------------------------------------------------------------- C16
\* C16: Close closes each pipe the supervisor owns, the exit pipe and the
\* control pipe, exactly once: after a Close none of them is open, and no
\* Close closes a descriptor that is not open.
C16_CloseClosesEveryChannel ==
    /\ [](ppc = "ready" /\ pret.op = "Close" => fds.exit # "open" /\ fds.control # "open")
    /\ [][\A f \in {"exit", "control"} :
            (fds'[f] # fds[f] /\ fds'[f] = "closed") => fds[f] = "open"]_vars

\* ---------------------------------------------------------------- C20
\* the records of the control pipe as its reader takes them apart: the fields
\* of a line, separated by single spaces
RECURSIVE Fields(_)
Fields(s) ==
    IF \A i \in 1..Len(s) : s[i] # " " THEN <<s>>
    ELSE LET i == CHOOSE k \in 1..Len(s) : s[k] = " " /\ \A j \in 1..(k - 1) : s[j] # " "
         IN  <<SubSeq(s, 1, i - 1)>> \o Fields(SubSeq(s, i + 1, Len(s)))

\* the three integers of a record that ends in a newline, <<>> for anything else
Command(line) ==
    IF line = <<>> \/ line[Len(line)] # "\n" THEN <<>>
    ELSE LET fs == Fields(SubSeq(line, 1, Len(line) - 1))
         IN  IF Len(fs) = 3 /\ \A i \in 1..3 : Atoi(fs[i]).err = Nil
               THEN <<Atoi(fs[1]).val, Atoi(fs[2]).val, Atoi(fs[3]).val>>
               ELSE <<>>

\* a call on the built supervisor returns
OpReturns(op) == ppc = "ready" /\ ppc' = "ready" /\ nops' = nops + 1 /\ pret'.op = op

\* C20: a built supervisor has an open control pipe exactly if newProcess
\* built it. On one built by loadProcess, whatever the state of its process,
\* CloseStdin and Resize fail with the error of a nil file and write nothing;
\* on one built by newProcess Resize(w, h) writes exactly "1 w h\n" and
\* CloseStdin exactly "0 0 0\n", one record a call, or nothing when the write
\* fails.
C20_ControlPipeOnlyFromNew ==
    /\ [](ppc = "ready" =>
            /\ (fds.control = "open" <=> kind = "new")
            /\ (p.controlPipe = ControlPipeFile <=> kind = "new"))
    /\ [](kind = "load" => ctl = <<>> /\ fds.control = "none")
    /\ [][(OpReturns("CloseStdin") \/ OpReturns("Resize")) /\ kind = "load" =>
            pret'.err = ErrInvalid /\ ctl' = ctl]_vars
    /\ [][(OpReturns("CloseStdin") \/ OpReturns("Resize")) /\ pret'.err # Nil => ctl' = ctl]_vars
    /\ [][\A ok \in BOOLEAN : (CloseStdin(ok) /\ pret'.err = Nil) =>
            /\ kind = "new" /\ Len(ctl') = Len(ctl) + 1 /\ SubSeq(ctl', 1, Len(ctl)) = ctl
            /\ ctl'[Len(ctl')] = <<"0", " ", "0", " ", "0", "\n">>]_vars
    /\ [][\A w \in Widths, h \in Heights, ok \in BOOLEAN : (Resize(w, h, ok) /\ pret'.err = Nil) =>
            /\ kind = "new" /\ Len(ctl') = Len(ctl) + 1 /\ SubSeq(ctl', 1, Len(ctl)) = ctl
            /\ Command(ctl'[Len(ctl')]) = <<1, w, h>>
            /\ Len(ctl'[Len(ctl')]) = 4 + Len(Itoa(w)) + Len(Itoa(h))
            /\ (w = 80 /\ h = 24 =>
                    ctl'[Len(ctl')] = <<"1", " ", "8", "0", " ", "2", "4", "\n">>)]_vars

\* a supervisor built by newProcess has written a resize and a close-stdin
\* record
C20_Witness ==
    /\ kind = "new" /\ ppc = "ready"
    /\ ctl = << <<"1", " ", "8", "0", " ", "2", "4", "\n">>, <<"0", " ", "0", " ", "0", "\n">> >>
    /\ pret = [op |-> "CloseStdin", val |-> 0, err |-> Nil]

\* Resize has failed on a supervisor that loadProcess built for a running
\* process
C20_LoadedResizeFails ==
    /\ kind = "load" /\ ppc = "ready" /\ p.exitPipe = ExitPipeFile
    /\ pret = [op |-> "Resize", val |-> 0, err |-> ErrInvalid]

====
